---- MODULE Spec2Model ----
(***************************************************************************)
(* Model of implot-examples/examples-shared/src/line_plots.rs: the line    *)
(* plot demo driven once per frame by show_demo_headers, together with the *)
(* chart-panel, linked-axis and style-stack contracts it is written        *)
(* against.                                                                *)
(*                                                                         *)
(* Floating point literals of the source are scaled by 10 (0.1 -> 1,       *)
(* 3.5 -> 35), so every coordinate is an integer.                          *)
(***************************************************************************)
EXTENDS Integers, Sequences, FiniteSets, TLC

\* ---------------------------------------------------------------- bounds
MaxFrames == 2
MaxInteractions == 2
MaxLen == 2
MaxDepth == 2
MaxCalls == 4

\* ------------------------------------------------------------ basic types
None == <<>>
Some(v) == <<v>>

Range(lo, hi) == [Min |-> lo, Max |-> hi]

NoLimits == [set |-> FALSE, range |-> Range(0, 0), cond |-> "Always"]
Limits(r, c) == [set |-> TRUE, range |-> r, cond |-> c]

Axes == {"X", "Y1", "Y2"}

PanelStates == {"None", "Unconfigured", "Configured", "Drawing", "Closed"}

Attrs == {"PlotBg", "Marker", "LineWeight"}
DefaultStyle == [a \in Attrs |-> "default"]

\* ------------------------------------------------- LinePlotDemoState::new
\* the same with a zero-width initial range
new_zero == Range(0, 0)

new == Range(0, 10)

\* ------------------------------------------------------------ the scripts
\* Each show_* function is the sequence of library calls it makes.
OpNew(t) == [op |-> "new", title |-> t]
OpConfigure(t, x, y1, y2, l) ==
  [op |-> "configure", title |-> t, x |-> x, y1 |-> y1, y2 |-> y2, linked_x |-> l]
OpBegin(t) == [op |-> "begin", title |-> t]
OpEnd(t) == [op |-> "end", title |-> t]
OpLine(t, l, xs, ys) == [op |-> "plot_line", title |-> t, label |-> l, xs |-> xs, ys |-> ys]
OpPush(v, a, val) == [op |-> "push", var |-> v, attr |-> a, value |-> val]
OpPop(v) == [op |-> "pop", var |-> v]
OpHover(t) == [op |-> "query_hover", title |-> t]
OpFromPixels(t) == [op |-> "query_from_pixels", title |-> t]
OpLegend(t, l, v) == [op |-> "query_legend", title |-> t, label |-> l, var |-> v]

\* the same with the size call omitted
show_basic_plot_unconfigured ==
  << OpNew("Simple line plot"),
     OpBegin("Simple line plot"),
     OpLine("Simple line plot", "legend label", <<1, 9>>, <<1, 9>>),
     OpEnd("Simple line plot") >>

show_basic_plot ==
  << OpNew("Simple line plot"),
     OpConfigure("Simple line plot", NoLimits, NoLimits, NoLimits, FALSE),
     OpBegin("Simple line plot"),
     OpLine("Simple line plot", "legend label", <<1, 9>>, <<1, 9>>),
     OpEnd("Simple line plot") >>

show_two_yaxis_plot ==
  << OpNew("Multiple Y axis plots"),
     OpConfigure("Multiple Y axis plots", NoLimits,
                 Limits(Range(0, 10), "Always"), Limits(Range(10, 35), "Always"), FALSE),
     OpBegin("Multiple Y axis plots"),
     OpLine("Multiple Y axis plots", "legend label", <<1, 9>>, <<1, 9>>),
     OpLine("Multiple Y axis plots", "legend label two", <<1, 9>>, <<33, 12>>),
     OpEnd("Multiple Y axis plots") >>

show_axis_equal_plot ==
  << OpNew("Axis equal line plot"),
     OpConfigure("Axis equal line plot", NoLimits, NoLimits, NoLimits, FALSE),
     OpBegin("Axis equal line plot"),
     OpLine("Axis equal line plot", "legend label", <<1, 9>>, <<1, 9>>),
     OpEnd("Axis equal line plot") >>

\* the same with the set-once condition
ConfigurableXCondition_once == "FirstUseEver"

ConfigurableXCondition == "Always"
ConfigurableYCondition == "Always"

show_configurable_plot ==
  << OpNew("Configured line plot"),
     OpConfigure("Configured line plot",
                 Limits(Range(20, 30), ConfigurableXCondition),
                 Limits(Range(10, 20), ConfigurableYCondition), NoLimits, FALSE),
     OpBegin("Configured line plot"),
     OpLine("Configured line plot", "A line 2", <<24, 29>>, <<11, 19>>),
     OpEnd("Configured line plot") >>

QueryXCondition == "FirstUseEver"
QueryYCondition == "FirstUseEver"

\* the same with the second legend query issued after build has returned
show_query_features_plot_late ==
  << OpNew("Plot querying"),
     OpConfigure("Plot querying",
                 Limits(Range(0, 50), QueryXCondition),
                 Limits(Range(0, 50), QueryYCondition), NoLimits, FALSE),
     OpBegin("Plot querying"),
     OpHover("Plot querying"),
     OpFromPixels("Plot querying"),
     OpLine("Plot querying", "Legend1", <<20, 20>>, <<20, 10>>),
     OpLine("Plot querying", "Legend2", <<0, 0>>, <<10, 10>>),
     OpLegend("Plot querying", "Legend1", "legend1_hovered"),
     OpEnd("Plot querying"),
     OpLegend("Plot querying", "Legend2", "legend2_hovered") >>

show_query_features_plot ==
  << OpNew("Plot querying"),
     OpConfigure("Plot querying",
                 Limits(Range(0, 50), QueryXCondition),
                 Limits(Range(0, 50), QueryYCondition), NoLimits, FALSE),
     OpBegin("Plot querying"),
     OpHover("Plot querying"),
     OpFromPixels("Plot querying"),
     OpLine("Plot querying", "Legend1", <<20, 20>>, <<20, 10>>),
     OpLine("Plot querying", "Legend2", <<0, 0>>, <<10, 10>>),
     OpLegend("Plot querying", "Legend1", "legend1_hovered"),
     OpLegend("Plot querying", "Legend2", "legend2_hovered"),
     OpEnd("Plot querying") >>

\* the same without lineweight.pop()
show_style_plot_leak ==
  << OpPush("style", "PlotBg", "rgba(1,1,1,0.2)"),
     OpNew("Style demo plot"),
     OpConfigure("Style demo plot",
                 Limits(Range(0, 60), "Always"),
                 Limits(Range(-10, 30), "Always"), NoLimits, FALSE),
     OpBegin("Style demo plot"),
     OpPush("markerchoice", "Marker", "Cross"),
     OpLine("Style demo plot", "Left eye", <<20, 20>>, <<20, 10>>),
     OpPop("markerchoice"),
     OpPush("lineweight", "LineWeight", "5.0"),
     OpLine("Style demo plot", "Right eye", <<40, 40>>, <<20, 10>>),
     OpLine("Style demo plot", "Mouth", <<10, 20, 40, 50>>, <<10, 0, 0, 10>>),
     OpEnd("Style demo plot"),
     OpPop("style") >>

show_style_plot ==
  << OpPush("style", "PlotBg", "rgba(1,1,1,0.2)"),
     OpNew("Style demo plot"),
     OpConfigure("Style demo plot",
                 Limits(Range(0, 60), "Always"),
                 Limits(Range(-10, 30), "Always"), NoLimits, FALSE),
     OpBegin("Style demo plot"),
     OpPush("markerchoice", "Marker", "Cross"),
     OpLine("Style demo plot", "Left eye", <<20, 20>>, <<20, 10>>),
     OpPop("markerchoice"),
     OpPush("lineweight", "LineWeight", "5.0"),
     OpLine("Style demo plot", "Right eye", <<40, 40>>, <<20, 10>>),
     OpPop("lineweight"),
     OpLine("Style demo plot", "Mouth", <<10, 20, 40, 50>>, <<10, 0, 0, 10>>),
     OpEnd("Style demo plot"),
     OpPop("style") >>

ColormapLabels ==
  << "0.100", "0.200", "0.300", "0.400", "0.500", "0.600", "0.700", "0.800", "0.900" >>

ColormapLines(t) == [k \in 1..9 |-> OpLine(t, ColormapLabels[k], <<1, 9>>, <<k, k>>)]

show_colormaps_plot ==
  << OpNew("Colormap demo plot"),
     OpConfigure("Colormap demo plot", NoLimits, NoLimits, NoLimits, FALSE),
     OpBegin("Colormap demo plot") >>
  \o ColormapLines("Colormap demo plot") \o
  << OpEnd("Colormap demo plot"),
     OpNew("Colormap demo plot #2"),
     OpConfigure("Colormap demo plot #2", NoLimits, NoLimits, NoLimits, FALSE),
     OpBegin("Colormap demo plot #2") >>
  \o ColormapLines("Colormap demo plot #2") \o
  << OpEnd("Colormap demo plot #2") >>

show_conversions_plot ==
  << OpNew("Simple line plot, conversion 1"),
     OpConfigure("Simple line plot, conversion 1",
                 Limits(Range(0, 10), "Always"),
                 Limits(Range(0, 10), "Always"), NoLimits, FALSE),
     OpBegin("Simple line plot, conversion 1"),
     OpLine("Simple line plot, conversion 1", "legend label", <<1, 9>>, <<1, 9>>),
     OpEnd("Simple line plot, conversion 1") >>

LinkedPlot1 ==
  << OpNew("Linked plot 1"),
     OpConfigure("Linked plot 1", NoLimits, NoLimits, NoLimits, TRUE),
     OpBegin("Linked plot 1"),
     OpLine("Linked plot 1", "legend label", <<1, 9>>, <<1, 9>>),
     OpEnd("Linked plot 1") >>

\* the same without .linked_x_limits(..)
LinkedPlot2_unlinked ==
  << OpNew("Linked plot 2"),
     OpConfigure("Linked plot 2", NoLimits, NoLimits, NoLimits, FALSE),
     OpBegin("Linked plot 2"),
     OpLine("Linked plot 2", "legend label", <<1, 9>>, <<1, 9>>),
     OpEnd("Linked plot 2") >>

LinkedPlot2 ==
  << OpNew("Linked plot 2"),
     OpConfigure("Linked plot 2", NoLimits, NoLimits, NoLimits, TRUE),
     OpBegin("Linked plot 2"),
     OpLine("Linked plot 2", "legend label", <<1, 9>>, <<1, 9>>),
     OpEnd("Linked plot 2") >>

\* the same with the second plot built inside the body of the first
show_linked_x_axis_plots_nested ==
  SubSeq(LinkedPlot1, 1, 3) \o LinkedPlot2 \o SubSeq(LinkedPlot1, 4, 5)

show_linked_x_axis_plots == LinkedPlot1 \o LinkedPlot2

\* show_demo_headers: the order in which the headers are visited.
Headers ==
  << "show_basic_plot", "show_configurable_plot", "show_query_features_plot",
     "show_style_plot", "show_colormaps_plot", "show_two_yaxis_plot",
     "show_axis_equal_plot", "show_conversions_plot", "show_linked_x_axis_plots" >>

Script(f) ==
  CASE f = "show_basic_plot" -> show_basic_plot
    [] f = "show_configurable_plot" -> show_configurable_plot
    [] f = "show_query_features_plot" -> show_query_features_plot
    [] f = "show_style_plot" -> show_style_plot
    [] f = "show_colormaps_plot" -> show_colormaps_plot
    [] f = "show_two_yaxis_plot" -> show_two_yaxis_plot
    [] f = "show_axis_equal_plot" -> show_axis_equal_plot
    [] f = "show_conversions_plot" -> show_conversions_plot
    [] f = "show_linked_x_axis_plots" -> show_linked_x_axis_plots
    [] OTHER -> <<>>

Titles ==
  { "Simple line plot", "Multiple Y axis plots", "Axis equal line plot",
    "Configured line plot", "Plot querying", "Style demo plot",
    "Colormap demo plot", "Colormap demo plot #2",
    "Simple line plot, conversion 1", "Linked plot 1", "Linked plot 2" }

\* ------------------------------------------------------------------ state
VARIABLES
  frame,          \* number of the frame being drawn
  pc,             \* position in show_demo_headers and in the running show_* function
  mouse_pos,      \* ui.io().mouse_pos as read by the running function, in pixels
  linked_limits,  \* LinePlotDemoState.linked_limits, the shared cell
  tokens,         \* style tokens held in local variables (0: none)
  locals,         \* the containers of show_query_features_plot
  panel,          \* state of each panel object of this frame
  config,         \* configuration captured by each panel
  backend,        \* axis limits the backend keeps per plot title across frames
  drawLimits,     \* limits each panel resolved when its draw began
  scopeDepth,     \* depth of the style stack when each panel's draw began
  series,         \* series submitted to each panel in this draw
  style,          \* current value of every style attribute
  styleStack,     \* pushed overrides, oldest first
  raised,         \* error kinds raised so far
  interactions,   \* number of user drags so far
  written,        \* range each linked panel wrote into the shared cell in this frame
  lastWritten,    \* range last written into the shared cell, if any
  lastUser,       \* range the user last dragged each axis to, if any
  bodyRuns,       \* per panel: times the draw body was entered and left
  lastQuery,      \* panel state and outcome of the last query or submission
  was_hovered,    \* result of is_plot_hovered() in this draw body, if asked
  styleBase,      \* the style as it was when the style stack was last empty
  released,       \* handles released so far, in order
  expected,       \* the equal-length series the contract client has submitted
  calls           \* number of calls the contract client has made

progVars == << frame, pc, mouse_pos, tokens, locals >>
libVars ==
  << linked_limits, panel, config, backend, drawLimits, scopeDepth, series, style,
     styleStack, raised >>
ghostVars ==
  << interactions, written, lastWritten, lastUser, bodyRuns, lastQuery, was_hovered,
     styleBase, released, expected, calls >>
vars == << progVars, libVars, ghostVars >>

MousePositions == { [x |-> 50, y |-> 150], [x |-> 130, y |-> 20] }
UserRanges == { Range(20, 50), Range(5, 25) }

NoLocals ==
  [ hover_pos_plot |-> None, hover_pos_pixels |-> None, hover_pos_from_pixels |-> None,
    legend1_hovered |-> FALSE, legend2_hovered |-> FALSE ]
NoTokens == [ style |-> 0, markerchoice |-> 0, lineweight |-> 0 ]
NoConfig == [ x |-> NoLimits, y1 |-> NoLimits, y2 |-> NoLimits, linked_x |-> FALSE ]
NoAxes == [ a \in Axes |-> None ]
NoRuns == [ entered |-> 0, left |-> 0 ]

FatalErrors ==
  { "QueryOutsideDrawScope", "SubmitOutsideDrawScope", "UnreleasedStyleOverride",
    "StyleReleaseOutOfOrder" }

InitLib ==
  /\ panel = [t \in Titles |-> "None"]
  /\ config = [t \in Titles |-> NoConfig]
  /\ backend = [t \in Titles |-> NoAxes]
  /\ drawLimits = [t \in Titles |-> NoAxes]
  /\ scopeDepth = [t \in Titles |-> 0]
  /\ series = [t \in Titles |-> <<>>]
  /\ style = DefaultStyle
  /\ styleStack = <<>>
  /\ raised = {}

InitGhost ==
  /\ interactions = 0
  /\ written = [t \in Titles |-> None]
  /\ lastWritten = None
  /\ lastUser = [t \in Titles |-> NoAxes]
  /\ bodyRuns = [t \in Titles |-> NoRuns]
  /\ lastQuery = None
  /\ was_hovered = None
  /\ styleBase = DefaultStyle
  /\ released = <<>>
  /\ expected = <<>>
  /\ calls = 0

Init ==
  /\ frame = 1
  /\ pc = [hdr |-> 1, fn |-> "none", i |-> 1]
  /\ mouse_pos = None
  /\ linked_limits = new
  /\ tokens = NoTokens
  /\ locals = NoLocals
  /\ InitLib
  /\ InitGhost

\* ------------------------------------------------- the backend's contract
PlotSize == [w |-> 100, h |-> 300]

AxisOr(lim, a) == IF lim[a] = None THEN Range(0, 10) ELSE lim[a][1]

\* plot_to_pixels_vec2: data space to pixels under the panel's resolved limits.
plot_to_pixels_vec2(p, lim) ==
  [ x |-> ((p.x - AxisOr(lim, "X").Min) * PlotSize.w)
            \div (AxisOr(lim, "X").Max - AxisOr(lim, "X").Min),
    y |-> PlotSize.h - ((p.y - AxisOr(lim, "Y1").Min) * PlotSize.h)
            \div (AxisOr(lim, "Y1").Max - AxisOr(lim, "Y1").Min) ]

\* pixels_to_plot_vec2: pixels to data space under the panel's resolved limits.
pixels_to_plot_vec2(px, lim) ==
  [ x |-> AxisOr(lim, "X").Min
            + (px.x * (AxisOr(lim, "X").Max - AxisOr(lim, "X").Min)) \div PlotSize.w,
    y |-> AxisOr(lim, "Y1").Min
            + ((PlotSize.h - px.y) * (AxisOr(lim, "Y1").Max - AxisOr(lim, "Y1").Min))
                \div PlotSize.h ]

get_plot_mouse_position(mouse, lim) == pixels_to_plot_vec2(mouse, lim)

\* Queries are legal only while the panel is Drawing.
QueryResult(s) == IF s = "Drawing" THEN "ok" ELSE "QueryOutsideDrawScope"

\* the same, drawing the common prefix of xs and ys instead of rejecting them
SubmitResult_truncating(s, xs, ys) ==
  IF s # "Drawing" THEN "SubmitOutsideDrawScope" ELSE "ok"

\* submit_line_series: legal only while Drawing, xs and ys of equal length.
SubmitResult(s, xs, ys) ==
  IF s # "Drawing" THEN "SubmitOutsideDrawScope"
  ELSE IF Len(xs) # Len(ys) THEN "DataLengthMismatch"
  ELSE "ok"

\* The persistence condition: forced limits apply at every draw (Always) or
\* only while the backend holds no range for that axis yet (FirstUseEver).
ResolveAxis(lim, prev) ==
  IF lim.set /\ (lim.cond = "Always" \/ prev = None) THEN Some(lim.range) ELSE prev

ResolveLimits(cfg, prev, cell) ==
  [ a \in Axes |->
      CASE a = "X" -> IF cfg.linked_x THEN Some(cell) ELSE ResolveAxis(cfg.x, prev[a])
        [] a = "Y1" -> ResolveAxis(cfg.y1, prev[a])
        [] a = "Y2" -> ResolveAxis(cfg.y2, prev[a]) ]

\* What the backend keeps for the next frame: the resolved range of every axis
\* it owns. An axis the host forces at every draw (Always, or linked to a
\* shared cell) is overwritten before it is ever read, so only what the user
\* dragged it to is kept.
Forced(cfg, a) ==
  \/ a = "X" /\ (cfg.linked_x \/ (cfg.x.set /\ cfg.x.cond = "Always"))
  \/ a = "Y1" /\ cfg.y1.set /\ cfg.y1.cond = "Always"
  \/ a = "Y2" /\ cfg.y2.set /\ cfg.y2.cond = "Always"

KeepLimits(cfg, prev, resolved) ==
  [ a \in Axes |-> IF Forced(cfg, a) THEN prev[a] ELSE resolved[a] ]

DragAxes(cfg) ==
  { a \in Axes : \/ a = "X" /\ (cfg.x.set \/ cfg.linked_x)
                 \/ a = "Y1" /\ cfg.y1.set
                 \/ a = "Y2" /\ cfg.y2.set }

Labels(ss) == { ss[k].label : k \in 1..Len(ss) }

Running == raised \cap FatalErrors = {}

\* Plot::new
LibNew(t) ==
  /\ panel' = [panel EXCEPT ![t] = "Unconfigured"]
  /\ config' = [config EXCEPT ![t] = NoConfig]
  /\ UNCHANGED << linked_limits, backend, drawLimits, scopeDepth, series, style,
                  styleStack, raised >>
  /\ UNCHANGED << written, lastWritten, lastUser, bodyRuns, lastQuery, styleBase, released >>

\* the builder calls between Plot::new and build
LibConfigure(t, cfg) ==
  /\ panel' = [panel EXCEPT ![t] = "Configured"]
  /\ config' = [config EXCEPT ![t] = cfg]
  /\ UNCHANGED << linked_limits, backend, drawLimits, scopeDepth, series, style,
                  styleStack, raised >>
  /\ UNCHANGED << written, lastWritten, lastUser, bodyRuns, lastQuery, styleBase, released >>

\* build, up to the call of the body
LibBegin(t) ==
  /\ panel' = [panel EXCEPT ![t] = "Drawing"]
  /\ drawLimits' =
       [drawLimits EXCEPT ![t] = ResolveLimits(config[t], backend[t], linked_limits)]
  /\ backend' = [backend EXCEPT ![t] = KeepLimits(config[t], backend[t], drawLimits'[t])]
  /\ scopeDepth' = [scopeDepth EXCEPT ![t] = Len(styleStack)]
  /\ series' = [series EXCEPT ![t] = <<>>]
  /\ bodyRuns' = [bodyRuns EXCEPT ![t].entered = @ + 1]
  /\ UNCHANGED << linked_limits, config, style, styleStack, raised >>
  /\ UNCHANGED << written, lastWritten, lastUser, lastQuery, styleBase, released >>

\* build, from the return of the body
LibEnd(t) ==
  /\ panel' = [panel EXCEPT ![t] = "Closed"]
  /\ bodyRuns' = [bodyRuns EXCEPT ![t].left = @ + 1]
  /\ raised' = IF Len(styleStack) > scopeDepth[t]
               THEN raised \cup {"UnreleasedStyleOverride"} ELSE raised
  /\ UNCHANGED << linked_limits, config, backend, drawLimits, scopeDepth, series,
                  style, styleStack >>
  /\ UNCHANGED << written, lastWritten, lastUser, lastQuery, styleBase, released >>

\* PlotLine::new(label).plot(xs, ys)
LibSubmit(t, l, xs, ys) ==
  LET r == SubmitResult(panel[t], xs, ys) IN
  /\ series' = IF r = "ok"
               THEN [series EXCEPT ![t] = Append(@, [label |-> l, xs |-> xs, ys |-> ys])]
               ELSE series
  /\ raised' = IF r = "ok" THEN raised ELSE raised \cup {r}
  /\ lastQuery' = Some([kind |-> "submit", state |-> panel[t], result |-> r,
                        nx |-> Len(xs), ny |-> Len(ys)])
  /\ UNCHANGED << linked_limits, panel, config, backend, drawLimits, scopeDepth,
                  style, styleStack >>
  /\ UNCHANGED << written, lastWritten, lastUser, bodyRuns, styleBase, released >>

\* push_style_color, push_style_var_i32, push_style_var_f32; the handle is
\* the depth of the stack after the push.
LibPush(a, v) ==
  /\ styleStack' = Append(styleStack, [attr |-> a, prev |-> style[a]])
  /\ style' = [style EXCEPT ![a] = v]
  /\ styleBase' = IF styleStack = <<>> THEN style ELSE styleBase
  /\ UNCHANGED << linked_limits, panel, config, backend, drawLimits, scopeDepth,
                  series, raised >>
  /\ UNCHANGED << written, lastWritten, lastUser, bodyRuns, lastQuery, released >>

\* the same, popping whatever is on top without looking at the handle
LibRelease_top(h) ==
  /\ IF Len(styleStack) > 0
     THEN /\ style' = [style EXCEPT ![styleStack[Len(styleStack)].attr] =
                                       styleStack[Len(styleStack)].prev]
          /\ styleStack' = SubSeq(styleStack, 1, Len(styleStack) - 1)
          /\ raised' = raised
     ELSE /\ raised' = raised \cup {"StyleReleaseOutOfOrder"}
          /\ UNCHANGED << style, styleStack >>
  /\ released' = Append(released, [handle |-> h, depth |-> Len(styleStack)])
  /\ UNCHANGED << linked_limits, panel, config, backend, drawLimits, scopeDepth,
                  series >>
  /\ UNCHANGED << written, lastWritten, lastUser, bodyRuns, lastQuery, styleBase >>

\* token.pop()
LibRelease(h) ==
  /\ IF h > 0 /\ h = Len(styleStack)
     THEN /\ style' = [style EXCEPT ![styleStack[h].attr] = styleStack[h].prev]
          /\ styleStack' = SubSeq(styleStack, 1, h - 1)
          /\ raised' = raised
     ELSE /\ raised' = raised \cup {"StyleReleaseOutOfOrder"}
          /\ UNCHANGED << style, styleStack >>
  /\ released' = Append(released, [handle |-> h, depth |-> Len(styleStack)])
  /\ UNCHANGED << linked_limits, panel, config, backend, drawLimits, scopeDepth,
                  series >>
  /\ UNCHANGED << written, lastWritten, lastUser, bodyRuns, lastQuery, styleBase >>

\* a query that changes nothing but reports its outcome
LibQuery(t) ==
  /\ raised' = IF QueryResult(panel[t]) = "ok" THEN raised
               ELSE raised \cup {QueryResult(panel[t])}
  /\ lastQuery' = Some([kind |-> "query", state |-> panel[t],
                        result |-> QueryResult(panel[t]), nx |-> 0, ny |-> 0])
  /\ UNCHANGED << linked_limits, panel, config, backend, drawLimits, scopeDepth,
                  series, style, styleStack >>
  /\ UNCHANGED << written, lastWritten, lastUser, bodyRuns, styleBase, released >>

\* ------------------------------------------------------- the demo program
InFunction == pc.fn # "none"
AtOp(kind) ==
  /\ Running
  /\ InFunction
  /\ pc.i <= Len(Script(pc.fn))
  /\ Script(pc.fn)[pc.i].op = kind
CurOp == Script(pc.fn)[pc.i]
Advance == pc' = [pc EXCEPT !.i = @ + 1]

\* if CollapsingHeader::new(..).build(ui) { Self::show_..(ui, plot_ui) }
Header ==
  /\ Running
  /\ ~InFunction
  /\ pc.hdr <= Len(Headers)
  /\ \E open \in BOOLEAN :
       pc' = IF open THEN [pc EXCEPT !.fn = Headers[pc.hdr], !.i = 1]
             ELSE [pc EXCEPT !.hdr = @ + 1]
  /\ UNCHANGED << frame, mouse_pos, tokens, locals >>
  /\ UNCHANGED libVars
  /\ UNCHANGED ghostVars

NewPlot ==
  /\ AtOp("new")
  /\ LibNew(CurOp.title)
  /\ Advance
  /\ UNCHANGED << frame, mouse_pos, tokens, locals, interactions, was_hovered, expected, calls >>

Configure ==
  /\ AtOp("configure")
  /\ LibConfigure(CurOp.title,
                  [ x |-> CurOp.x, y1 |-> CurOp.y1, y2 |-> CurOp.y2,
                    linked_x |-> CurOp.linked_x ])
  /\ Advance
  /\ UNCHANGED << frame, mouse_pos, tokens, locals, interactions, was_hovered, expected, calls >>

BeginBuild ==
  /\ AtOp("begin")
  /\ LibBegin(CurOp.title)
  /\ Advance
  /\ UNCHANGED << frame, mouse_pos, tokens, locals, interactions, was_hovered, expected, calls >>

EndBuild ==
  /\ AtOp("end")
  /\ LibEnd(CurOp.title)
  /\ Advance
  /\ UNCHANGED << frame, mouse_pos, tokens, locals, interactions, was_hovered, expected, calls >>

PlotLine ==
  /\ AtOp("plot_line")
  /\ LibSubmit(CurOp.title, CurOp.label, CurOp.xs, CurOp.ys)
  /\ Advance
  /\ UNCHANGED << frame, mouse_pos, tokens, locals, interactions, was_hovered, expected, calls >>

PushStyle ==
  /\ AtOp("push")
  /\ LibPush(CurOp.attr, CurOp.value)
  /\ tokens' = [tokens EXCEPT ![CurOp.var] = Len(styleStack) + 1]
  /\ Advance
  /\ UNCHANGED << frame, mouse_pos, locals, interactions, was_hovered, expected, calls >>

PopStyle ==
  /\ AtOp("pop")
  /\ LibRelease(tokens[CurOp.var])
  /\ tokens' = [tokens EXCEPT ![CurOp.var] = 0]
  /\ Advance
  /\ UNCHANGED << frame, mouse_pos, locals, interactions, was_hovered, expected, calls >>

\* the same without the is_plot_hovered() guard
HoverBlock_unguarded(l, hov, mouse, lim) ==
  [l EXCEPT !.hover_pos_plot = Some(get_plot_mouse_position(mouse, lim)),
            !.hover_pos_pixels =
               Some(plot_to_pixels_vec2(get_plot_mouse_position(mouse, lim), lim))]

\* if is_plot_hovered() { hover_pos_plot = Some(..); hover_pos_pixels = Some(..) }
HoverBlock(l, hov, mouse, lim) ==
  IF hov
  THEN [l EXCEPT !.hover_pos_plot = Some(get_plot_mouse_position(mouse, lim)),
                 !.hover_pos_pixels =
                    Some(plot_to_pixels_vec2(get_plot_mouse_position(mouse, lim), lim))]
  ELSE l

\* hover_pos_from_pixels = Some(pixels_to_plot_vec2(mouse_pos, None))
FromPixelsBlock(l, mouse, lim) ==
  [l EXCEPT !.hover_pos_from_pixels = Some(pixels_to_plot_vec2(mouse, lim))]

\* The mouse position is one value per frame: the first read fixes it for
\* the rest of the function, the only reader in a frame.
ReadMouse(m) ==
  /\ m \in MousePositions
  /\ mouse_pos \in {None, Some(m)}
  /\ mouse_pos' = Some(m)

QueryHover ==
  /\ AtOp("query_hover")
  /\ LibQuery(CurOp.title)
  /\ IF QueryResult(panel[CurOp.title]) = "ok"
     THEN \E hov \in BOOLEAN, m \in MousePositions :
            /\ ReadMouse(m)
            /\ was_hovered' = Some(hov)
            /\ locals' = HoverBlock(locals, hov, m, drawLimits[CurOp.title])
     ELSE UNCHANGED << mouse_pos, was_hovered, locals >>
  /\ Advance
  /\ UNCHANGED << frame, tokens, interactions, expected, calls >>

QueryFromPixels ==
  /\ AtOp("query_from_pixels")
  /\ LibQuery(CurOp.title)
  /\ IF QueryResult(panel[CurOp.title]) = "ok"
     THEN \E m \in MousePositions :
            /\ ReadMouse(m)
            /\ locals' = FromPixelsBlock(locals, m, drawLimits[CurOp.title])
     ELSE UNCHANGED << mouse_pos, locals >>
  /\ Advance
  /\ UNCHANGED << frame, tokens, interactions, was_hovered, expected, calls >>

\* legendN_hovered = is_legend_entry_hovered(label)
QueryLegend ==
  /\ AtOp("query_legend")
  /\ LibQuery(CurOp.title)
  /\ IF QueryResult(panel[CurOp.title]) = "ok"
     THEN \E b \in (IF CurOp.label \in Labels(series[CurOp.title]) THEN BOOLEAN ELSE {FALSE}) :
            locals' = [locals EXCEPT ![CurOp.var] = b]
     ELSE UNCHANGED locals
  /\ Advance
  /\ UNCHANGED << frame, mouse_pos, tokens, interactions, was_hovered, expected, calls >>

\* The user drags or zooms an axis of the panel being drawn; on a linked
\* axis the backend writes the new range back into the shared cell.
UserDrag ==
  /\ Running
  /\ interactions < MaxInteractions
  /\ \E t \in Titles, r \in UserRanges :
       /\ panel[t] = "Drawing"
       /\ \E a \in DragAxes(config[t]) :
            /\ backend' = [backend EXCEPT ![t][a] = Some(r)]
            /\ lastUser' = [lastUser EXCEPT ![t][a] = Some(r)]
            /\ IF a = "X" /\ config[t].linked_x
               THEN /\ linked_limits' = r
                    /\ written' = [written EXCEPT ![t] = Some(r)]
                    /\ lastWritten' = Some(r)
               ELSE UNCHANGED << linked_limits, written, lastWritten >>
  /\ interactions' = interactions + 1
  /\ UNCHANGED progVars
  /\ UNCHANGED << panel, config, drawLimits, scopeDepth, series, style, styleStack,
                  raised >>
  /\ UNCHANGED << bodyRuns, lastQuery, was_hovered, styleBase, released, expected, calls >>

\* The show_* function returns: its panels, tokens and containers are dropped.
Return ==
  /\ Running
  /\ InFunction
  /\ pc.i > Len(Script(pc.fn))
  /\ pc' = [hdr |-> pc.hdr + 1, fn |-> "none", i |-> 1]
  /\ tokens' = NoTokens
  /\ locals' = NoLocals
  /\ panel' = [t \in Titles |-> "None"]
  /\ config' = [t \in Titles |-> NoConfig]
  /\ drawLimits' = [t \in Titles |-> NoAxes]
  /\ scopeDepth' = [t \in Titles |-> 0]
  /\ series' = [t \in Titles |-> <<>>]
  /\ written' = [t \in Titles |-> None]
  /\ bodyRuns' = [t \in Titles |-> NoRuns]
  /\ lastQuery' = None
  /\ was_hovered' = None
  /\ released' = <<>>
  /\ mouse_pos' = None
  /\ UNCHANGED << frame, linked_limits, backend, style, styleStack, raised >>
  /\ UNCHANGED << interactions, lastWritten, lastUser, styleBase, expected, calls >>

\* The host's frame loop calls show_demo_headers again.
NextFrame ==
  /\ Running
  /\ ~InFunction
  /\ pc.hdr > Len(Headers)
  /\ frame < MaxFrames
  /\ frame' = frame + 1
  /\ pc' = [hdr |-> 1, fn |-> "none", i |-> 1]
  /\ mouse_pos' = None
  /\ UNCHANGED << tokens, locals >>
  /\ UNCHANGED libVars
  /\ UNCHANGED ghostVars

Next ==
  \/ Header
  \/ NewPlot
  \/ Configure
  \/ BeginBuild
  \/ EndBuild
  \/ PlotLine
  \/ PushStyle
  \/ PopStyle
  \/ QueryHover
  \/ QueryFromPixels
  \/ QueryLegend
  \/ UserDrag
  \/ Return
  \/ NextFrame

Spec == Init /\ [][Next]_vars

\* ------------------------------------------------- the contracts on their own
\* A client that may call the style stack in any order, with any attribute
\* and value, from any style.
BaseValues == {"default", "Cross"}
PushValues == {"Cross", "5.0"}

InitStyle ==
  /\ frame = 1
  /\ pc = [hdr |-> 1, fn |-> "none", i |-> 1]
  /\ mouse_pos = None
  /\ linked_limits = new
  /\ tokens = NoTokens
  /\ locals = NoLocals
  /\ panel = [t \in Titles |-> "None"]
  /\ config = [t \in Titles |-> NoConfig]
  /\ backend = [t \in Titles |-> NoAxes]
  /\ drawLimits = [t \in Titles |-> NoAxes]
  /\ scopeDepth = [t \in Titles |-> 0]
  /\ series = [t \in Titles |-> <<>>]
  /\ style \in [Attrs -> BaseValues]
  /\ styleStack = <<>>
  /\ raised = {}
  /\ interactions = 0
  /\ written = [t \in Titles |-> None]
  /\ lastWritten = None
  /\ lastUser = [t \in Titles |-> NoAxes]
  /\ bodyRuns = [t \in Titles |-> NoRuns]
  /\ lastQuery = None
  /\ was_hovered = None
  /\ styleBase = style
  /\ released = <<>>
  /\ expected = <<>>
  /\ calls = 0

ClientPush ==
  /\ Running
  /\ calls < MaxCalls
  /\ Len(styleStack) < MaxDepth
  /\ \E a \in Attrs, v \in PushValues : LibPush(a, v)
  /\ calls' = calls + 1
  /\ UNCHANGED progVars
  /\ UNCHANGED << interactions, was_hovered, expected >>

ClientRelease ==
  /\ Running
  /\ calls < MaxCalls
  /\ \E h \in 1..Len(styleStack) : LibRelease(h)
  /\ calls' = calls + 1
  /\ UNCHANGED progVars
  /\ UNCHANGED << interactions, was_hovered, expected >>

NextStyle ==
  \/ ClientPush
  \/ ClientRelease

SpecStyle == InitStyle /\ [][NextStyle]_vars

\* A client that draws one panel and submits any series to it.
ClientPanel == "Simple line plot"
ClientLabels == {"a", "b"}
Samples(n) == [k \in 1..n |-> k]

ClientNew ==
  /\ Running
  /\ panel[ClientPanel] = "None"
  /\ LibNew(ClientPanel)
  /\ UNCHANGED progVars
  /\ UNCHANGED << interactions, was_hovered, expected, calls >>

ClientConfigure ==
  /\ Running
  /\ panel[ClientPanel] = "Unconfigured"
  /\ LibConfigure(ClientPanel, NoConfig)
  /\ UNCHANGED progVars
  /\ UNCHANGED << interactions, was_hovered, expected, calls >>

ClientBegin ==
  /\ Running
  /\ panel[ClientPanel] = "Configured"
  /\ LibBegin(ClientPanel)
  /\ UNCHANGED progVars
  /\ UNCHANGED << interactions, was_hovered, expected, calls >>

ClientSubmit ==
  /\ Running
  /\ calls < MaxCalls
  /\ panel[ClientPanel] = "Drawing"
  /\ \E l \in ClientLabels, nx \in 0..MaxLen, ny \in 0..MaxLen :
       /\ LibSubmit(ClientPanel, l, Samples(nx), Samples(ny))
       /\ expected' = IF nx = ny
                      THEN Append(expected, [label |-> l, xs |-> Samples(nx), ys |-> Samples(ny)])
                      ELSE expected
  /\ calls' = calls + 1
  /\ UNCHANGED progVars
  /\ UNCHANGED << interactions, was_hovered >>

ClientQuery ==
  /\ Running
  /\ calls < MaxCalls
  /\ panel[ClientPanel] # "None"
  /\ LibQuery(ClientPanel)
  /\ calls' = calls + 1
  /\ UNCHANGED progVars
  /\ UNCHANGED << interactions, was_hovered, expected >>

ClientEnd ==
  /\ Running
  /\ panel[ClientPanel] = "Drawing"
  /\ LibEnd(ClientPanel)
  /\ UNCHANGED progVars
  /\ UNCHANGED << interactions, was_hovered, expected, calls >>

NextSeries ==
  \/ ClientNew
  \/ ClientConfigure
  \/ ClientBegin
  \/ ClientSubmit
  \/ ClientQuery
  \/ ClientEnd

SpecSeries == Init /\ [][NextSeries]_vars

\* ------------------------------------------------------------- properties
L1 == "Linked plot 1"
L2 == "Linked plot 2"
CfgPlot == "Configured line plot"
QueryPlot == "Plot querying"
StylePlot == "Style demo plot"

Begins(t) == panel[t] = "Configured" /\ panel'[t] = "Drawing"
Begun(t) == panel[t] \in {"Drawing", "Closed"}
AfterLastOp(f) == pc.fn = f /\ pc.i > Len(Script(f))

\* C1: when 'Linked plot 1' wrote a range into the shared cell during its
\* draw, 'Linked plot 2', drawn after it in the same frame, resolves exactly
\* that range as its X limits, whatever range was written.
C1_SecondPanelSeesWrite ==
  (Begun(L2) /\ written[L1] # None) => drawLimits[L2]["X"] = written[L1]

C1_Witness ==
  /\ Begun(L2)
  /\ written[L1] = Some(Range(20, 50))
  /\ drawLimits[L2]["X"] = Some(Range(20, 50))

\* C2: a query succeeds in the Drawing state and in no other, and raises
\* QueryOutsideDrawScope once the panel is Closed; show_query_features_plot
\* issues every query while 'Plot querying' is Drawing and makes no library
\* call after its draw has returned.
C2_QueriesInsideDraw ==
  /\ \A st \in PanelStates : (QueryResult(st) = "ok") <=> (st = "Drawing")
  /\ QueryResult("Closed") = "QueryOutsideDrawScope"
  /\ (lastQuery # None /\ lastQuery[1].kind = "query")
       => (lastQuery[1].state = "Drawing" /\ lastQuery[1].result = "ok")
  /\ "QueryOutsideDrawScope" \notin raised
  /\ (pc.fn = "show_query_features_plot" /\ panel[QueryPlot] = "Closed")
       => AfterLastOp("show_query_features_plot")

C2_Witness ==
  /\ AfterLastOp("show_query_features_plot")
  /\ panel[QueryPlot] = "Closed"
  /\ lastQuery # None
  /\ lastQuery[1].kind = "query"
  /\ lastQuery[1].result = "ok"
  /\ locals.hover_pos_from_pixels # None

\* C3: whenever every pushed override has been released in LIFO order the
\* style is exactly what it was before the first push, and a release is
\* flagged exactly when its handle is not the last one pushed.
C3_LifoRestores ==
  /\ (styleStack = <<>> /\ "StyleReleaseOutOfOrder" \notin raised) => style = styleBase
  /\ \A k \in 1..Len(released) :
       (released[k].handle # released[k].depth)
         => (k = Len(released) /\ "StyleReleaseOutOfOrder" \in raised)
  /\ ("StyleReleaseOutOfOrder" \in raised)
       => (Len(released) > 0
           /\ released[Len(released)].handle # released[Len(released)].depth)

C3_Witness ==
  /\ Len(released) = 2
  /\ released[1].handle = 2
  /\ released[2].handle = 1
  /\ styleStack = <<>>
  /\ style = styleBase
  /\ raised = {}

\* C4: a submission with xs and ys of different lengths raises
\* DataLengthMismatch and adds nothing; the panel's series are exactly the
\* equal-length submissions made before and after it, and drawing goes on.
C4_MismatchIsLocal ==
  /\ series[ClientPanel] = expected
  /\ (lastQuery # None /\ lastQuery[1].kind = "submit")
       => ((lastQuery[1].result = "DataLengthMismatch")
             <=> (lastQuery[1].nx # lastQuery[1].ny))
  /\ (raised \subseteq {"DataLengthMismatch"}) => Running

C4_Witness ==
  /\ "DataLengthMismatch" \in raised
  /\ calls = 3
  /\ Len(series[ClientPanel]) = 2
  /\ lastQuery # None
  /\ lastQuery[1].kind = "submit"
  /\ lastQuery[1].result = "ok"
  /\ panel[ClientPanel] = "Drawing"

\* C5: 'Configured line plot' (Condition::Always) begins every draw with the
\* host's limits, whatever the user dragged before; 'Plot querying'
\* (Condition::FirstUseEver) begins a draw with the host's limits only while
\* the user has not adjusted the axis, and with the last user-adjusted range
\* afterwards.
C5_PersistenceCondition ==
  [][ /\ Begins(CfgPlot)
        => /\ drawLimits'[CfgPlot]["X"] = Some(Range(20, 30))
           /\ drawLimits'[CfgPlot]["Y1"] = Some(Range(10, 20))
      /\ Begins(QueryPlot)
        => \A a \in {"X", "Y1"} :
             drawLimits'[QueryPlot][a] =
               IF lastUser[QueryPlot][a] = None THEN Some(Range(0, 50))
               ELSE lastUser[QueryPlot][a] ]_vars

C5_Witness ==
  /\ frame = 2
  /\ panel[QueryPlot] = "Drawing"
  /\ interactions = 1
  /\ lastUser[QueryPlot]["X"] = Some(Range(5, 25))
  /\ drawLimits[QueryPlot]["X"] = Some(Range(5, 25))
  /\ drawLimits[QueryPlot]["Y1"] = Some(Range(0, 50))

\* C6: a panel only ever steps Unconfigured -> Configured -> Drawing ->
\* Closed (and is then dropped); its body has been entered once and not yet
\* left while it is Drawing, entered and left exactly once when it is
\* Closed, and every series is submitted while its panel is Drawing.
PanelSteps ==
  { <<"None", "Unconfigured">>, <<"Unconfigured", "Configured">>,
    <<"Configured", "Drawing">>, <<"Drawing", "Closed">>, <<"Closed", "None">> }

C6_PanelLifecycle ==
  /\ [][ \A t \in Titles : panel'[t] # panel[t] => <<panel[t], panel'[t]>> \in PanelSteps ]_vars
  /\ [](\A t \in Titles :
          bodyRuns[t] = CASE panel[t] = "Drawing" -> [entered |-> 1, left |-> 0]
                          [] panel[t] = "Closed" -> [entered |-> 1, left |-> 1]
                          [] OTHER -> NoRuns)
  /\ []((lastQuery # None /\ lastQuery[1].kind = "submit") => lastQuery[1].state = "Drawing")

C6_Witness ==
  /\ panel["Simple line plot"] = "Closed"
  /\ bodyRuns["Simple line plot"] = [entered |-> 1, left |-> 1]
  /\ Len(series["Simple line plot"]) = 1

\* C7 as stated: when the draw of 'Style demo plot' returns no override is
\* still pushed.
C7_Original ==
  panel[StylePlot] = "Closed" => styleStack = <<>>

\* C7 amended: when the draw of 'Style demo plot' returns, the overrides
\* pushed inside its body (Marker, LineWeight) are released and only the
\* PlotBg override pushed before the panel was built is still in force; it
\* is released right after, so that nothing is pushed when show_style_plot
\* returns, and UnreleasedStyleOverride never occurs.
C7_BodyOverridesReleased ==
  /\ panel[StylePlot] = "Closed"
       => (AfterLastOp("show_style_plot") \/ styleStack = << [attr |-> "PlotBg", prev |-> "default"] >>)
  /\ panel[StylePlot] = "Closed" => Len(styleStack) <= scopeDepth[StylePlot]
  /\ AfterLastOp("show_style_plot") => (styleStack = <<>> /\ style = DefaultStyle)
  /\ ~InFunction => styleStack = <<>>
  /\ "UnreleasedStyleOverride" \notin raised

C7_Witness ==
  /\ panel[StylePlot] = "Closed"
  /\ ~AfterLastOp("show_style_plot")
  /\ styleStack = << [attr |-> "PlotBg", prev |-> "default"] >>
  /\ style["PlotBg"] = "rgba(1,1,1,0.2)"
  /\ style["Marker"] = "default"
  /\ style["LineWeight"] = "default"

\* C8: the shared range lives across frames: each linked panel begins its
\* draw with the range last written into the shared cell, or with the
\* initial (0,1) when nothing was ever written, and nothing but a write of a
\* linked panel changes the cell.
C8_SharedRangePersists ==
  [][ /\ \A t \in {L1, L2} :
           Begins(t) => drawLimits'[t]["X"] =
                          IF lastWritten = None THEN Some(Range(0, 10)) ELSE lastWritten
      /\ linked_limits' # linked_limits
           => (\E t \in {L1, L2} : panel[t] = "Drawing" /\ written'[t] = Some(linked_limits')) ]_vars

C8_Witness ==
  /\ frame = 2
  /\ panel[L1] = "Drawing"
  /\ written[L1] = None
  /\ lastWritten = Some(Range(20, 50))
  /\ drawLimits[L1]["X"] = Some(Range(20, 50))

\* C9: at most one panel is Drawing at any time.
C9_OneDrawAtATime ==
  Cardinality({ t \in Titles : panel[t] = "Drawing" }) <= 1

C9_Witness ==
  /\ panel[L1] = "Closed"
  /\ panel[L2] = "Drawing"
  /\ written[L1] # None

\* C10: once the draw of 'Plot querying' has returned, hover_pos_plot is
\* present exactly when is_plot_hovered() was true in the body,
\* hover_pos_pixels is present exactly when hover_pos_plot is, and
\* hover_pos_from_pixels is present in either case.
C10_HoverCaptures ==
  panel[QueryPlot] = "Closed"
    => /\ was_hovered # None
       /\ (locals.hover_pos_plot # None) <=> (was_hovered = Some(TRUE))
       /\ (locals.hover_pos_pixels # None) <=> (locals.hover_pos_plot # None)
       /\ locals.hover_pos_from_pixels # None

C10_Witness ==
  /\ panel[QueryPlot] = "Closed"
  /\ was_hovered = Some(FALSE)
  /\ locals.hover_pos_plot = None
  /\ locals.hover_pos_pixels = None
  /\ locals.hover_pos_from_pixels # None

====
